---- MODULE Spec2Model ----
(***************************************************************************)
(* AlphaMail review surface: the two Next.js route handlers                *)
(*   GET  /api/emails        (Query Gateway)                               *)
(*   POST /api/email-action  (Disposition Handler)                         *)
(* over the Firestore collection "emails", and the client that reviews the *)
(* returned list one card at a time (HomePage, EmailCardStack).            *)
(***************************************************************************)
EXTENDS Integers, Sequences, FiniteSets, TLC

VARIABLES
    store,          \* the Firestore collection "emails": document key -> fields
    now,            \* the server clock, read by new Date()
    snapshot,       \* emailsSnapshot.docs of the latest GET, as document keys
    getResponse,    \* the latest response of GET /api/emails
    lastPost,       \* the latest request to POST /api/email-action, and its response
    isLoading,      \* HomePage: isLoading
    emails,         \* HomePage emails, then EmailCardStack emails (the stack)
    exitDirection,  \* EmailCardStack: exitDirection
    inflight,       \* handleAction invocations suspended at `await fetch`
    settled         \* handleAction invocations that ran to their end, with the outcome

vars == <<store, now, snapshot, getResponse, lastPost,
          isLoading, emails, exitDirection, inflight, settled>>

serverVars == <<store, now, snapshot, getResponse, lastPost>>
clientVars == <<isLoading, emails, exitDirection, inflight, settled>>

----------------------------------------------------------------------------
\* Bounds of the model.

\* Documents 1..n of a generated collection, n <= MaxDocs (one more, key 0, may
\* be added with freely chosen fields).
MaxDocs == 3
\* The same, for the collections that fill more than one page of the query.
MaxPageDocs == 22
\* The server clock advances at most this many times.
MaxTicks == 1
\* handleAction invocations suspended at once, where it is called with any id.
MaxCalls == 3

\* Program constants.
PageSize == 20
userId == "default"

\* Received dates of the generated documents are 1 .. DateModulus.
DateModulus == MaxPageDocs + 7
\* The first value of the server clock: later than every stored date.
FirstNow == DateModulus + 3

Actions == {"keep", "discard", "flag"}

----------------------------------------------------------------------------
\* Values of document fields, as the handlers read them.

\* A string field, or a field the document does not have (undefined).
Str(s) == [kind |-> "string", val |-> s]
Undefined == [kind |-> "undefined", val |-> ""]
\* JavaScript truthiness of such a value: undefined and "" are falsy.
Truthy(v) == v.kind = "string" /\ v.val # ""

\* received_date: a Firestore Timestamp, or a value of another type (null, a
\* string), or no such field in the document.
Timestamp(ms) == [kind |-> "timestamp", ms |-> ms]
NullDate == [kind |-> "null", ms |-> 0]
StringDate == [kind |-> "string", ms |-> 0]
AbsentDate == [kind |-> "absent", ms |-> 0]

\* Date.toISOString(): the text of an instant.
ToISOString(ms) == [kind |-> "iso", ms |-> ms]

\* Document i of a generated collection: this owner's, unread, dated, summarised.
\* The stride makes the order of the dates differ from the order of the keys.
RegularDoc(i, stride) ==
    [user_id |-> userId, is_read |-> FALSE, discard |-> FALSE,
     received_date |-> Timestamp(((i * stride) % DateModulus) + 1),
     gmail_id |-> i, subject |-> "subject", sender |-> "sender",
     summary |-> Str("summary"), snippet |-> Str("snippet"),
     body |-> Str("body"), is_important |-> (i % 2 = 0)]

\* The document of key 0: the combinations of the fields the handlers test.
\* Its date is older than, equal to, or newer than those of the other documents,
\* or no Timestamp; its gmail_id is its own or that of document 1.
OddDocs(owners, flags, dates, ids, texts) ==
    [user_id : owners, is_read : flags, discard : flags,
     received_date : dates,
     gmail_id : ids, subject : {"subject"}, sender : {"sender"},
     summary : texts, snippet : texts,
     body : {Str("body")}, is_important : {TRUE}]

Owners == {userId, "other"}
Dates == {Timestamp(0), Timestamp(3), Timestamp(DateModulus + 1),
          NullDate, StringDate, AbsentDate}
Texts == {Str("text"), Str(""), Undefined}

\* The collections the model starts from.
Collections(maxDocs, strides, odd) ==
    { [k \in 1..n |-> RegularDoc(k, s)] : n \in 0..maxDocs, s \in strides }
    \cup
    { [k \in 0..n |-> IF k = 0 THEN d ELSE RegularDoc(k, s)] :
        n \in 0..maxDocs, s \in strides, d \in odd }

----------------------------------------------------------------------------
\* GET /api/emails

\* Mutant of Matches: the clause on discard is left out.
MatchesWithoutDiscard(data) ==
    /\ data.user_id = userId
    /\ data.is_read = FALSE
    /\ data.received_date.kind # "absent"

\* The where clauses; orderBy("received_date") returns only documents that have
\* the field.
Matches(data) ==
    /\ data.user_id = userId
    /\ data.is_read = FALSE
    /\ data.discard = FALSE
    /\ data.received_date.kind # "absent"

\* Firestore orders values of different types by type: null, ..., timestamp, string.
TypeRank(v) ==
    CASE v.kind = "null" -> 0
      [] v.kind = "timestamp" -> 1
      [] OTHER -> 2

\* orderBy("received_date", "desc"): document a comes before document b. Equal
\* values are ordered by document key, in the same direction.
ComesBefore(s, a, b) ==
    LET va == s[a].received_date
        vb == s[b].received_date
    IN \/ TypeRank(va) > TypeRank(vb)
       \/ TypeRank(va) = TypeRank(vb) /\ va.ms > vb.ms
       \/ TypeRank(va) = TypeRank(vb) /\ va.ms = vb.ms /\ a > b

RECURSIVE OrderByDesc(_, _)
OrderByDesc(s, keys) ==
    IF keys = {} THEN <<>>
    ELSE LET first == CHOOSE a \in keys : \A b \in keys \ {a} : ComesBefore(s, a, b)
         IN <<first>> \o OrderByDesc(s, keys \ {first})

\* .limit(n)
Limit(docs, n) == SubSeq(docs, 1, IF Len(docs) < n THEN Len(docs) ELSE n)

\* The query of GET, as the keys of the documents of the snapshot.
QueryDocs(s) ==
    Limit(OrderByDesc(s, {k \in DOMAIN s : Matches(s[k])}), PageSize)

\* Mutant of ReceivedDate: no fallback for a value that is no Timestamp.
ReceivedDateNoFallback(data, clock) == ToISOString(data.received_date.ms)

\* receivedDate of an item: the Timestamp's instant, else the time of the query.
ReceivedDate(data, clock) ==
    IF data.received_date.kind = "timestamp"
    THEN ToISOString(data.received_date.ms)
    ELSE ToISOString(clock)

\* summary of an item: data.summary || data.snippet
SummaryOf(data) == IF Truthy(data.summary) THEN data.summary ELSE data.snippet

\* docs.map(...): the EmailSummary of one document.
ToEmailSummary(data, clock) ==
    [id |-> data.gmail_id,
     subject |-> data.subject,
     sender |-> data.sender,
     summary |-> SummaryOf(data),
     fullContent |-> data.body,
     receivedDate |-> ReceivedDate(data, clock),
     actionRequired |-> data.is_important,
     actionDescription |-> IF data.is_important
                           THEN Str("This email is marked as important.")
                           ELSE Undefined,
     status |-> "none"]

NoGet == [status |-> 0, emails |-> <<>>, at |-> 0]

\* The response of GET over the documents docs at time clock.
GetBody(s, docs, clock) ==
    IF docs = <<>>
    THEN [status |-> 200, emails |-> <<>>, at |-> clock]
    ELSE [status |-> 200,
          emails |-> [i \in 1..Len(docs) |-> ToEmailSummary(s[docs[i]], clock)],
          at |-> clock]

\* The handler: the query, then the mapping; a Firestore error gives status 500.
GET ==
    \E firestoreFails \in BOOLEAN :
        /\ IF firestoreFails
           THEN /\ snapshot' = <<>>
                /\ getResponse' = [status |-> 500, emails |-> <<>>, at |-> now]
           ELSE /\ snapshot' = QueryDocs(store)
                /\ getResponse' = GetBody(store, QueryDocs(store), now)
        /\ UNCHANGED <<store, now, lastPost>>

\* Time passes on the server.
Tick ==
    /\ now < FirstNow + MaxTicks
    /\ now' = now + 1
    /\ UNCHANGED <<store, snapshot, getResponse, lastPost>>

----------------------------------------------------------------------------
\* POST /api/email-action

\* Request bodies: JSON with emailId and action, or text request.json() rejects.
Body(emailId, action) == [parses |-> TRUE, emailId |-> emailId, action |-> action]
BadBody == [parses |-> FALSE, emailId |-> 0, action |-> "keep"]

\* The response: success without performing any action; 500 from the catch.
PostResponse(body) ==
    IF body.parses
    THEN [status |-> 200, success |-> TRUE, message |-> "Action disabled."]
    ELSE [status |-> 500, success |-> FALSE, message |-> "Internal Server Error"]

\* Mutant of PostStore: the handler flips the discard field of the documents of
\* the emailId.
PostStoreToggle(s, body) ==
    [k \in DOMAIN s |->
        IF body.parses /\ s[k].gmail_id = body.emailId
        THEN [s[k] EXCEPT !.discard = ~s[k].discard]
        ELSE s[k]]

\* The collection after the handler ran: it writes nothing.
PostStore(s, body) == s

\* The disposition a document stores, in the two fields the query tests: read
\* and not discarded is kept, discard set is discarded, neither is unread. (No
\* field of the collection stands for flagged.)
Disposition(data) ==
    IF data.discard THEN "discarded"
    ELSE IF data.is_read THEN "kept"
    ELSE "unread"

\* The dispositions of the documents of one gmail_id.
DispositionsOf(s, emailId) ==
    [k \in {d \in DOMAIN s : s[d].gmail_id = emailId} |-> Disposition(s[k])]

\* No response yet.
NoResponse == [status |-> 0, success |-> FALSE, message |-> ""]

NoPrior == [success |-> FALSE, after |-> <<>>]
NoPost == [body |-> BadBody, response |-> NoResponse, after |-> <<>>,
           repeated |-> FALSE, prior |-> NoPrior]

\* The handler, on one request. lastPost keeps the request, the response and the
\* dispositions the collection then holds for the request's emailId; when the
\* request repeats the one before, also the outcome of the one before.
POST(body) ==
    /\ store' = PostStore(store, body)
    /\ lastPost' =
         LET same == body.parses /\ lastPost.body = body
         IN [body |-> body,
             response |-> PostResponse(body),
             after |-> DispositionsOf(PostStore(store, body), body.emailId),
             repeated |-> same,
             prior |-> IF same
                       THEN [success |-> lastPost.response.success,
                             after |-> lastPost.after]
                       ELSE NoPrior]
    /\ UNCHANGED <<now, snapshot, getResponse>>

\* A request of any caller of the route.
PostIds == {0, 1}
PostRequest ==
    \E body \in {Body(id, a) : id \in PostIds, a \in Actions} \cup {BadBody} :
        /\ POST(body)
        /\ UNCHANGED clientVars

----------------------------------------------------------------------------
\* HomePage (page.tsx)

\* The route answers the page's request.
PageGET ==
    /\ isLoading
    /\ getResponse = NoGet
    /\ GET
    /\ UNCHANGED clientVars

\* fetchEmails, after `await fetch`: a 200 sets the list, anything else is
\* logged; finally the page stops loading and mounts the stack with the list.
fetchEmails ==
    /\ isLoading
    /\ getResponse # NoGet
    /\ emails' = IF getResponse.status = 200 THEN getResponse.emails ELSE emails
    /\ isLoading' = FALSE
    /\ UNCHANGED <<exitDirection, inflight, settled>>
    /\ UNCHANGED serverVars

\* fetchEmails when fetch itself rejects (no response reaches the page).
fetchEmailsCatch ==
    /\ isLoading
    /\ isLoading' = FALSE
    /\ UNCHANGED <<emails, exitDirection, inflight, settled>>
    /\ UNCHANGED serverVars

----------------------------------------------------------------------------
\* EmailCardStack (EmailCardStack.tsx)

\* What the component renders: the card of the last element, or the message.
Render(list) ==
    IF Len(list) > 0
    THEN [card |-> <<list[Len(list)]>>, allReviewed |-> FALSE]
    ELSE [card |-> <<>>, allReviewed |-> TRUE]

\* Mutant of CardId: the id of the first element.
CardIdFirst(list) == list[1].id

\* The id the rendered card passes to handleAction.
CardId(list) == list[Len(list)].id

\* Mutant of RemoveEmail: the list is left as it is until the server answers.
RemoveEmailNever(prev, emailId) == prev

\* Mutant of RemoveEmail: the test of the filter is inverted.
RemoveEmailInverted(prev, emailId) ==
    LET Keep(email) == email.id = emailId
    IN SelectSeq(prev, Keep)

\* prev.filter((email) => email.id !== emailId)
RemoveEmail(prev, emailId) ==
    LET Keep(email) == email.id # emailId
    IN SelectSeq(prev, Keep)

\* handleAction up to `await fetch`: the direction, the optimistic removal, the
\* request sent.
handleAction(emailId, action) ==
    /\ exitDirection' = action
    /\ emails' = RemoveEmail(emails, emailId)
    /\ inflight' = inflight \cup
          {[emailId |-> emailId, action |-> action, response |-> NoResponse]}
    /\ UNCHANGED <<isLoading, settled>>
    /\ UNCHANGED serverVars

\* The user swipes or double-clicks the rendered card.
OnAction ==
    \E action \in Actions :
        /\ ~isLoading
        /\ Len(emails) > 0
        /\ handleAction(CardId(emails), action)

\* The route answers the request of one suspended handleAction.
ServeAction ==
    \E c \in inflight :
        /\ c.response = NoResponse
        /\ POST(Body(c.emailId, c.action))
        /\ inflight' = (inflight \ {c}) \cup
              {[c EXCEPT !.response = PostResponse(Body(c.emailId, c.action))]}
        /\ UNCHANGED <<isLoading, emails, exitDirection, settled>>

\* Mutant of StackAfterSettle: the top of the stack is removed once more.
StackAfterSettlePop(prev, emailId, outcome) ==
    SubSeq(prev, 1, IF Len(prev) > 0 THEN Len(prev) - 1 ELSE 0)

\* The stack once a handleAction ran to its end: both error paths only log.
StackAfterSettle(prev, emailId, outcome) == prev

\* handleAction after `await fetch`, with the response.
handleActionResume ==
    \E c \in inflight :
        /\ c.response # NoResponse
        /\ LET outcome == IF c.response.status = 200 THEN "ok" ELSE "http_error"
           IN /\ settled' = settled \cup {[emailId |-> c.emailId, outcome |-> outcome]}
              /\ emails' = StackAfterSettle(emails, c.emailId, outcome)
        /\ inflight' = inflight \ {c}
        /\ UNCHANGED <<isLoading, exitDirection>>
        /\ UNCHANGED serverVars

\* handleAction when fetch rejects: the request or its response is lost.
handleActionCatch ==
    \E c \in inflight :
        /\ settled' = settled \cup {[emailId |-> c.emailId, outcome |-> "network_error"]}
        /\ emails' = StackAfterSettle(emails, c.emailId, "network_error")
        /\ inflight' = inflight \ {c}
        /\ UNCHANGED <<isLoading, exitDirection>>
        /\ UNCHANGED serverVars

----------------------------------------------------------------------------
\* Specifications

InitIn(collections) ==
    /\ store \in collections
    /\ now = FirstNow
    /\ snapshot = <<>>
    /\ getResponse = NoGet
    /\ lastPost = NoPost
    /\ isLoading = TRUE
    /\ emails = <<>>
    /\ exitDirection = "null"
    /\ inflight = {}
    /\ settled = {}

\* The Record Writer stores one record per owner and message (an upsert keyed
\* by owner and provider id): no two documents of an owner share a gmail_id.
UniqueIds(s) ==
    \A a, b \in DOMAIN s :
        (s[a].user_id = s[b].user_id /\ s[a].gmail_id = s[b].gmail_id) => a = b

\* The whole system: one page load, then the review of the list.
Init ==
    InitIn({s \in Collections(MaxDocs, {2},
                              OddDocs({userId}, {FALSE}, {Timestamp(0)}, {0, 1},
                                      {Str("text")})) : UniqueIds(s)})

Next ==
    \/ PageGET
    \/ fetchEmails
    \/ fetchEmailsCatch
    \/ OnAction
    \/ ServeAction
    \/ handleActionResume
    \/ handleActionCatch

Spec == Init /\ [][Next]_vars

\* The two routes, called by any client at any time.
InitGateway ==
    InitIn(Collections(MaxDocs, {2}, OddDocs(Owners, BOOLEAN, Dates, {0}, Texts)))

AnyGET == GET /\ UNCHANGED clientVars
AnyTick == Tick /\ UNCHANGED clientVars

NextGateway ==
    \/ AnyGET
    \/ AnyTick
    \/ PostRequest

SpecGateway == InitGateway /\ [][NextGateway]_vars

\* The query route over collections of more than one page.
InitPage ==
    InitIn(Collections(MaxPageDocs, {1, 5},
                       OddDocs(Owners, BOOLEAN, Dates, {0}, {Str("text")})))

NextPage ==
    \/ AnyGET
    \/ AnyTick

SpecPage == InitPage /\ [][NextPage]_vars

\* handleAction as a function of its arguments: called with the id of any item
\* of a fetched list, in the stack or not, or with an id of no item. The calls
\* stay suspended at `await fetch`.
CallIds == 0..(MaxDocs + 1)
handleActionAny ==
    \E emailId \in CallIds, action \in Actions :
        /\ ~isLoading
        /\ Cardinality(inflight) < MaxCalls
        /\ handleAction(emailId, action)

InitRemove ==
    InitIn({s \in Collections(MaxDocs, {1, 2},
                              OddDocs({userId}, {FALSE},
                                      {Timestamp(0), Timestamp(DateModulus + 1)},
                                      {0, 1}, {Str("text")})) : UniqueIds(s)})

NextRemove ==
    \/ PageGET
    \/ fetchEmails
    \/ fetchEmailsCatch
    \/ handleActionAny

SpecRemove == InitRemove /\ [][NextRemove]_vars

----------------------------------------------------------------------------
\* Properties

Min(a, b) == IF a < b THEN a ELSE b
Range(seq) == {seq[i] : i \in 1..Len(seq)}
Ids(list) == {list[i].id : i \in 1..Len(list)}

\* The latest GET answered from a query, and its items are the documents of the
\* snapshot, in the snapshot's order.
Answered ==
    /\ getResponse.status = 200
    /\ Len(getResponse.emails) = Len(snapshot)
    /\ \A i \in 1..Len(snapshot) :
          getResponse.emails[i].id = store[snapshot[i]].gmail_id

\* C1 (Visibility invariant): a stored record whose disposition is not unread
\* (kept or discarded; of any owner) is not among the records a response of
\* GET /emails lists, and a response lists nothing but the queried records of
\* the owner it serves.
C1_Visibility ==
    getResponse.status = 200 =>
        /\ Answered
        /\ \A k \in DOMAIN store :
              Disposition(store[k]) # "unread" => k \notin Range(snapshot)
        /\ \A k \in Range(snapshot) : store[k].user_id = userId

\* A response that lists records while the owner also has a record that is not
\* unread, after the action route has been called.
C1_Witness ==
    /\ getResponse.status = 200
    /\ Len(getResponse.emails) > 0
    /\ lastPost.response.success
    /\ \E k \in DOMAIN store :
          store[k].user_id = userId /\ Disposition(store[k]) # "unread"

\* The disposition the contract maps an action to.
Mapped(action) ==
    CASE action = "keep" -> "kept"
      [] action = "discard" -> "discarded"
      [] action = "flag" -> "flagged"

\* C2 (Disposition Handler effect): after POST /email-action with the id of an
\* existing record and an action of keep, discard, flag has returned success,
\* the stored disposition of the record is the mapped value.
C2_DispositionSet ==
    (lastPost.body.parses /\ lastPost.response.success) =>
        \A k \in DOMAIN store :
            store[k].gmail_id = lastPost.body.emailId =>
                Disposition(store[k]) = Mapped(lastPost.body.action)

\* C4 (Query Gateway page): for an owner with n unread records the response
\* lists exactly min(n, 20) records, all of that owner and unread, newest first
\* by received_at, and no unlisted record is newer than a listed one (the order
\* is stated over the records whose received_date is a Timestamp).
C4_Page ==
    getResponse.status = 200 =>
        LET unread == {k \in DOMAIN store :
                          store[k].user_id = userId /\ Disposition(store[k]) = "unread"}
            dated(k) == store[k].received_date.kind = "timestamp"
            at(k) == store[k].received_date.ms
        IN /\ Answered
           /\ Len(getResponse.emails) = Min(Cardinality(unread), PageSize)
           /\ Range(snapshot) \subseteq unread
           /\ \A i, j \in 1..Len(snapshot) :
                 (i < j /\ dated(snapshot[i]) /\ dated(snapshot[j]))
                     => at(snapshot[i]) >= at(snapshot[j])
           /\ \A k \in unread \ Range(snapshot) : \A l \in Range(snapshot) :
                 (dated(k) /\ dated(l)) => at(k) <= at(l)

\* C5 (Disposition idempotence): when the same action is submitted twice for
\* the same emailId, both calls report success and the dispositions stored for
\* that emailId after the second call are those stored after the first.
C5_Idempotent ==
    lastPost.repeated =>
        /\ lastPost.prior.success
        /\ lastPost.response.success
        /\ lastPost.after = lastPost.prior.after

\* The same action submitted twice for the id of an existing record.
C5_Witness ==
    /\ lastPost.repeated
    /\ \E k \in DOMAIN store : store[k].gmail_id = lastPost.body.emailId

C9_NonEmptySummary ==
    getResponse.status = 200 =>
        \A i \in 1..Len(getResponse.emails) : Truthy(getResponse.emails[i].summary)

\* The handleAction invocations a step starts, and those it ends.
Started == {c \in inflight' \ inflight : c.response = NoResponse}
Ended == settled' \ settled

\* C3 (Revert on failure): when the call for an optimistically removed item
\* fails (non-OK response or network error), the item is put back and is the
\* top of the stack again.
C3_Revert ==
    [][\A s \in Ended :
          s.outcome # "ok" =>
              /\ Len(emails') > 0
              /\ emails'[Len(emails')].id = s.emailId]_vars

\* C6 (Optimistic removal): the step in which the user acts on the visible
\* item removes it from the stack, with its call not yet answered; an item
\* whose call the server confirmed is never in the stack again.
C6_Optimistic ==
    /\ [][\A c \in Started :
            /\ c.emailId \in Ids(emails)
            /\ c.emailId \notin Ids(emails')
            /\ \A s \in settled' : s.emailId # c.emailId]_vars
    /\ [](\A s \in settled : s.outcome = "ok" => s.emailId \notin Ids(emails))

\* A confirmed item, with other items still to review.
C6_Witness ==
    /\ \E s \in settled : s.outcome = "ok"
    /\ Len(emails) > 0

\* C7 (Single visible item): at most one card is rendered; it is the last
\* element of a non-empty stack and none for an empty one; every action emitted
\* carries the id of that card.
C7_SingleVisible ==
    /\ [](LET r == Render(emails)
          IN /\ Len(r.card) <= 1
             /\ Len(emails) > 0 => r.card = <<emails[Len(emails)]>>
             /\ Len(emails) = 0 => r.card = <<>> /\ r.allReviewed)
    /\ [][\A c \in Started :
            /\ Len(emails) > 0
            /\ Render(emails).card = <<emails[Len(emails)]>>
            /\ c.emailId = emails[Len(emails)].id]_vars

\* An action was emitted from a stack of several items, and a card is rendered.
C7_Witness ==
    /\ inflight # {}
    /\ Len(emails) >= 2

\* C10 (Non-blocking confirmation): with calls outstanding the last item of the
\* stack is rendered and the user can act on it; a step that answers or ends a
\* call, whichever call it is, leaves the stack and what is rendered unchanged.
C10_NonBlocking ==
    /\ []((~isLoading /\ Len(emails) > 0) =>
            /\ Render(emails).card = <<emails[Len(emails)]>>
            /\ ENABLED OnAction)
    /\ [][(inflight' # inflight /\ Started = {}) =>
            /\ emails' = emails
            /\ Render(emails') = Render(emails)
            /\ exitDirection' = exitDirection]_vars

\* Two calls outstanding, one already ended, and an item rendered.
C10_Witness ==
    /\ Cardinality(inflight) >= 2
    /\ settled # {}
    /\ Len(emails) > 0

\* The list without its element i.
Without(list, i) ==
    [j \in 1..(Len(list) - 1) |-> IF j < i THEN list[j] ELSE list[j + 1]]

\* C11 (Removal frame): over the lists the Query Gateway returns from a
\* collection with one record per owner and message, an action with the id of
\* an item of the stack (the visible one or another) removes that one item: the
\* stack is one shorter and the other items keep their order; an action with an
\* id that is not in the stack leaves the stack unchanged.
C11_RemovalFrame ==
    [][~isLoading =>
         /\ \A c \in Started :
               IF c.emailId \in Ids(emails)
               THEN /\ Len(emails') = Len(emails) - 1
                    /\ \E i \in 1..Len(emails) :
                          /\ emails[i].id = c.emailId
                          /\ emails' = Without(emails, i)
               ELSE emails' = emails
         /\ Started = {} => emails' = emails]_vars

\* Of a list of three or more, an item was removed from under the top, the
\* same id was acted on again, and items remain.
C11_Witness ==
    /\ Len(getResponse.emails) >= 3
    /\ Len(emails) >= 1
    /\ emails[Len(emails)] = getResponse.emails[Len(getResponse.emails)]
    /\ \E c1, c2 \in inflight :
          /\ c1.emailId = c2.emailId
          /\ c1.action # c2.action
          /\ c1.emailId \in Ids(getResponse.emails)

====
